---- MODULE Spec2Model ----
(***************************************************************************)
(* Stock ledger, adjustment workflow, tenant context and order numbering   *)
(* of the inventory / order management backend.                            *)
(*                                                                         *)
(* Every Django request runs on a worker thread; the tenant context is a   *)
(* thread-local slot (tenants/middleware.py).  Each ORM statement is one   *)
(* database round trip and commits on its own (no transaction.atomic in    *)
(* inventory/models.py or orders/models.py), so one action of the model is *)
(* one database statement together with the in-memory code around it.     *)
(***************************************************************************)
EXTENDS Integers, Sequences, FiniteSets, TLC

\* ---------------------------------------------------------------- bounds
MaxAdj == 1
MaxRows == 2
MaxQty == 1
MaxTx == 2
MaxOrders == 3
MaxLines == 2
MaxLineQty == 2
MaxHistory == 1
MaxShopOrders == 1
MaxDemoOrders == 2
MaxWarehouses == 3

\* ------------------------------------------------------------- constants
\* get_current_tenant() returns None when the slot is empty
NoTenant == 0
Tenants == {1, 2}
Workers == {1, 2}
\* stocked units (product, variant): unit t is the product of tenant t
Units == Tenants
UnitTenant(u) == u
\* every tenant has one warehouse
WarehouseOf(t) == t
Warehouses == {WarehouseOf(t) : t \in Tenants}
Quantities == 0 .. MaxQty

\* request.user: AnonymousUser, a superuser without tenant, tenant members, tenant staff
AnonymousUser == [auth |-> FALSE, tenant |-> NoTenant, staff |-> FALSE]
Users ==
    {AnonymousUser, [auth |-> TRUE, tenant |-> NoTenant, staff |-> TRUE]}
    \cup {[auth |-> TRUE, tenant |-> t, staff |-> s] : t \in Tenants, s \in BOOLEAN}
\* a NULL user foreign key
NullUser == AnonymousUser

\* Subscription.status; "trial_over" is status 'trial' with now > trial_end
SubStatuses == {"trial", "trial_over", "active", "expired", "none"}

\* a NULL DateTimeField / a value of timezone.now()
TsNull == "null"
TsSet == "now"

VARIABLES
    threadTenant,   \* _thread_locals.tenant of each worker thread
    pc,             \* position of each worker in its request
    user,           \* request.user of the request a worker handles
    result,         \* outcome of the view the worker ran
    subscription,   \* Subscription.status of each tenant
    adjustments,    \* table stock_adjustments, in creation order
    stockItems,     \* table stock_items, keyed by (tenant, unit, warehouse)
    stockTx,        \* table stock_transactions, in creation order
    inst,           \* the StockAdjustment instance a worker holds
    itemInst,       \* the StockItem instance a worker holds
    readCtx,        \* tenant slot at the time of the worker's last list query
    readRows,       \* ids returned by the worker's last list query
    orders,         \* table orders
    orderInst,      \* the Order instance a worker is saving
    orderLines,     \* table order_lines, keyed by line id
    statusHistory,  \* table order_status_history, in creation order
    demo,           \* the demo data script: its position and local variables
    warehouses,     \* table warehouses, keyed by warehouse id
    whInst,         \* the Warehouse instance a worker is saving
    catalog,        \* tables products and product_variants: the reorder points of each unit
    lowStock        \* the low stock flags the dashboard of a worker computed

vars == <<threadTenant, pc, user, result, subscription, adjustments, stockItems,
          stockTx, inst, itemInst, readCtx, readRows, orders, orderInst,
          orderLines, statusHistory, demo, warehouses, whInst, catalog, lowStock>>

tenantVars == <<threadTenant, user, subscription>>
ledgerVars == <<adjustments, stockItems, stockTx>>
orderVars == <<orders, orderInst>>
readVars == <<readCtx, readRows>>
shopVars == <<orderLines, statusHistory>>
warehouseVars == <<warehouses, whInst>>
catalogVars == <<catalog, lowStock>>
requestVars ==
    <<threadTenant, pc, user, result, subscription, inst, itemInst, readCtx, readRows,
      orderInst>>

\* ------------------------------------------------------------ rows
NoAdjRow ==
    [tenant |-> NoTenant, unit |-> 0, warehouse |-> 0, quantity_before |-> 0,
     quantity_after |-> 0, adjustment_quantity |-> 0, status |-> "none",
     approved_by |-> NullUser, approved_at |-> TsNull]
NoInst == [id |-> 0, row |-> NoAdjRow]
NoItemInst == [key |-> <<NoTenant, 0, 0>>, quantity |-> 0, reserved_quantity |-> 0]
NoNumber == [prefix |-> "", n |-> 0]
\* Order.tax_amount, shipping_amount, discount_amount as entered in a form
NoCharges == [tax_amount |-> 0, shipping_amount |-> 0, discount_amount |-> 0]
NoOrderInst ==
    [id |-> 0, tenant |-> NoTenant, order_type |-> "none", order_number |-> NoNumber,
     status |-> "none", subtotal |-> 0, tax_amount |-> 0, shipping_amount |-> 0,
     discount_amount |-> 0, total_amount |-> 0]

AdjIds == 1 .. Len(adjustments)

\* ------------------------------------------------------------ tenant context
get_current_tenant(w) == threadTenant[w]

\* a manager that forgets the tenant filter
GetQueryset_Unfiltered(ctx) == AdjIds

\* TenantAwareManager.get_queryset over stock_adjustments: the ids it returns
GetQueryset(ctx) ==
    {i \in AdjIds : ctx = NoTenant \/ adjustments[i].tenant = ctx}

\* models.Manager (all_objects): no tenant filter
AllObjects == AdjIds

\* TenantAwareManager.get_queryset over stock_items: the keys it returns
ItemQueryset(ctx) ==
    {k \in DOMAIN stockItems : ctx = NoTenant \/ k[1] = ctx}

\* TenantAwareManager.create followed by TenantAwareModel.save: the tenant
\* the new row carries (NoTenant: the insert fails on the NOT NULL column)
StampTenant(ctx, given) == IF given # NoTenant THEN given ELSE ctx

\* check_trial_status: the 'status' it reports
TrialStatus(s) ==
    CASE s = "trial" -> "active"
      [] s = "trial_over" -> "expired"
      [] s = "active" -> "active"
      [] s = "none" -> "no_subscription"
      [] OTHER -> "expired"

\* check_trial_status: the subscription status it leaves in the database
AfterTrialCheck(s) == IF s = "trial_over" THEN "expired" ELSE s

\* is_access_allowed
is_access_allowed(s) == TrialStatus(s) \in {"active", "trial"}

\* get_trial_warning_level raises TypeError (None <= 0) for a paid subscription:
\* check_trial_status reports status 'active' with days_remaining None
WarningLevelRaises(s) == s = "active"

\* The middleware chain on the way in: TenantMiddleware.process_request, then
\* TrialAccessMiddleware.process_request.  US: the users that send requests;
\* allowed: the path starts with one of ALLOWED_URLS or TRIAL_EXPIRED_URLS.
process_request(w, US) ==
    /\ pc[w] = "idle"
    /\ \E u \in US, allowed \in BOOLEAN :
        LET skip == ~u.auth \/ u.staff \/ allowed \/ u.tenant = NoTenant
        IN  /\ user' = [user EXCEPT ![w] = u]
            /\ threadTenant' =
                IF u.auth /\ u.tenant # NoTenant
                THEN [threadTenant EXCEPT ![w] = u.tenant]
                ELSE threadTenant
            /\ IF skip
               THEN /\ pc' = [pc EXCEPT ![w] = "view"]
                    /\ UNCHANGED <<subscription, result>>
               ELSE /\ subscription' =
                        [subscription EXCEPT ![u.tenant] = AfterTrialCheck(@)]
                    /\ IF is_access_allowed(subscription[u.tenant])
                       THEN /\ pc' = [pc EXCEPT ![w] = "view"]
                            /\ UNCHANGED result
                       ELSE /\ pc' = [pc EXCEPT ![w] = "response"]
                            /\ result' = [result EXCEPT ![w] = "redirect"]
    /\ UNCHANGED <<ledgerVars, inst, itemInst, readVars, orderVars, shopVars, demo, warehouseVars, catalogVars>>

\* TrialAccessMiddleware.process_response: the cleanup of the slot is the last
\* statement; an exception in the header code leaves the slot as it is
TrialAccessMiddleware_process_response(w) ==
    /\ pc[w] = "response"
    /\ LET u == user[w]
           headers == u.auth /\ u.tenant # NoTenant /\ ~u.staff
       IN  /\ subscription' =
                IF headers
                THEN [subscription EXCEPT ![u.tenant] = AfterTrialCheck(@)]
                ELSE subscription
           /\ threadTenant' =
                IF headers /\ WarningLevelRaises(subscription[u.tenant])
                THEN threadTenant
                ELSE [threadTenant EXCEPT ![w] = NoTenant]
    /\ pc' = [pc EXCEPT ![w] = "idle"]
    /\ user' = [user EXCEPT ![w] = AnonymousUser]
    /\ result' = [result EXCEPT ![w] = "none"]
    /\ inst' = [inst EXCEPT ![w] = NoInst]
    /\ itemInst' = [itemInst EXCEPT ![w] = NoItemInst]
    /\ readCtx' = [readCtx EXCEPT ![w] = NoTenant]
    /\ readRows' = [readRows EXCEPT ![w] = {}]
    /\ orderInst' = [orderInst EXCEPT ![w] = NoOrderInst]
    /\ UNCHANGED <<ledgerVars, orders, shopVars, demo, warehouseVars, catalogVars>>

\* a list view: StockAdjustment.objects.all()
ListAdjustments(w) ==
    /\ pc[w] = "view"
    /\ user[w].auth
    /\ readCtx' = [readCtx EXCEPT ![w] = get_current_tenant(w)]
    /\ readRows' = [readRows EXCEPT ![w] = GetQueryset(get_current_tenant(w))]
    /\ result' = [result EXCEPT ![w] = "listed"]
    /\ pc' = [pc EXCEPT ![w] = "response"]
    /\ UNCHANGED <<tenantVars, ledgerVars, inst, itemInst, orderVars, shopVars, demo, warehouseVars, catalogVars>>

\* StockAdjustment.save on a new row, through StockAdjustment.objects.create;
\* the caller passes tenant=request.user.tenant or no tenant (given = NoTenant)
RequestAdjustment(w, Q, max) ==
    /\ pc[w] = "view"
    /\ user[w].auth
    /\ Len(adjustments) < max
    /\ \E given \in {NoTenant, user[w].tenant}, u \in Units, b \in Q, a \in Q :
        LET t == StampTenant(get_current_tenant(w), given)
        IN  IF t = NoTenant
            THEN /\ result' = [result EXCEPT ![w] = "IntegrityError"]
                 /\ UNCHANGED adjustments
            ELSE /\ UnitTenant(u) = t
                 /\ adjustments' = Append(adjustments,
                        [tenant |-> t, unit |-> u, warehouse |-> WarehouseOf(t),
                         quantity_before |-> b, quantity_after |-> a,
                         adjustment_quantity |-> a - b, status |-> "pending",
                         approved_by |-> NullUser, approved_at |-> TsNull])
                 /\ result' = [result EXCEPT ![w] = "ok"]
    /\ pc' = [pc EXCEPT ![w] = "response"]
    /\ UNCHANGED <<tenantVars, stockItems, stockTx, inst, itemInst, readVars, orderVars, shopVars, demo, warehouseVars, catalogVars>>

\* ------------------------------------------------------------ stock ledger
\* sum of the quantities of the stock_transactions rows of one (tenant, unit, warehouse)
RECURSIVE SumTx(_, _)
SumTx(log, k) ==
    IF log = <<>> THEN 0
    ELSE LET t == Head(log)
         IN  (IF <<t.tenant, t.unit, t.warehouse>> = k THEN t.quantity ELSE 0)
             + SumTx(Tail(log), k)

\* workers that have written the approved status and not yet their transaction
PendingTx == {w \in Workers : pc[w] = "approve_tx"}

\* a detail view fetches one adjustment: StockAdjustment.objects.get(pk=...) or,
\* through the unfiltered manager, StockAdjustment.all_objects.get(pk=...)
LoadAdjustment(w) ==
    /\ pc[w] = "view"
    /\ user[w].auth
    /\ \E mgr \in {"objects", "all_objects"} :
        \E id \in (IF mgr = "objects" THEN GetQueryset(get_current_tenant(w)) ELSE AllObjects) :
            inst' = [inst EXCEPT ![w] = [id |-> id, row |-> adjustments[id]]]
    /\ pc' = [pc EXCEPT ![w] = "loaded"]
    /\ UNCHANGED <<tenantVars, result, ledgerVars, itemInst, readVars, orderVars, shopVars, demo, warehouseVars, catalogVars>>

\* StockAdjustment.save: recomputes adjustment_quantity and writes every column
AdjustmentSave(row) ==
    [row EXCEPT !.adjustment_quantity = row.quantity_after - row.quantity_before]

\* StockAdjustment.approve, the guard: a non-pending instance raises ValueError
approve_invalid(w) ==
    /\ pc[w] = "loaded"
    /\ inst[w].row.status # "pending"
    /\ result' = [result EXCEPT ![w] = "ValueError"]
    /\ pc' = [pc EXCEPT ![w] = "response"]
    /\ UNCHANGED <<tenantVars, ledgerVars, inst, itemInst, readVars, orderVars, shopVars, demo, warehouseVars, catalogVars>>

\* StockAdjustment.approve, first statement block: status, approver, timestamp, self.save()
approve_status(w) ==
    /\ pc[w] = "loaded"
    /\ inst[w].row.status = "pending"
    /\ Len(stockTx) + Cardinality(PendingTx) < MaxTx
    /\ LET row == AdjustmentSave([inst[w].row EXCEPT !.status = "approved",
                                                     !.approved_by = user[w],
                                                     !.approved_at = TsSet])
       IN  /\ inst' = [inst EXCEPT ![w].row = row]
           /\ adjustments' = [adjustments EXCEPT ![inst[w].id] = row]
    /\ pc' = [pc EXCEPT ![w] = "approve_tx"]
    /\ UNCHANGED <<tenantVars, result, stockItems, stockTx, itemInst, readVars, orderVars, shopVars, demo, warehouseVars, catalogVars>>

\* the stock_transactions row that approve creates; adj records the adjustment
\* whose approval wrote the row (the code stores no reference_id)
AdjustmentTx(w, t) ==
    [tenant |-> t, unit |-> inst[w].row.unit, warehouse |-> inst[w].row.warehouse,
     transaction_type |-> "adjustment", quantity |-> inst[w].row.adjustment_quantity,
     reason |-> "adjustment", adj |-> inst[w].id]

\* StockAdjustment.approve, second statement: StockTransaction.objects.create(...)
\* without a tenant argument; the row takes the tenant of the slot
approve_transaction(w) ==
    /\ pc[w] = "approve_tx"
    /\ LET t == StampTenant(get_current_tenant(w), NoTenant)
       IN  IF t = NoTenant
           THEN /\ result' = [result EXCEPT ![w] = "IntegrityError"]
                /\ pc' = [pc EXCEPT ![w] = "response"]
                /\ UNCHANGED stockTx
           ELSE /\ stockTx' = Append(stockTx, AdjustmentTx(w, t))
                /\ pc' = [pc EXCEPT ![w] = "approve_item"]
                /\ UNCHANGED result
    /\ UNCHANGED <<tenantVars, adjustments, stockItems, inst, itemInst, readVars, orderVars, shopVars, demo, warehouseVars, catalogVars>>

\* the stock_items rows StockItem.objects.get_or_create(product, variant, warehouse) looks at
ItemMatches(w) ==
    {k \in ItemQueryset(get_current_tenant(w)) :
        k[2] = inst[w].row.unit /\ k[3] = inst[w].row.warehouse}

\* StockAdjustment.approve, third statement: StockItem.objects.get_or_create(...,
\* defaults={'quantity': 0}); the created row takes the tenant of the slot
approve_get_or_create(w) ==
    /\ pc[w] = "approve_item"
    /\ LET found == ItemMatches(w)
           t == StampTenant(get_current_tenant(w), NoTenant)
           key == <<t, inst[w].row.unit, inst[w].row.warehouse>>
       IN  IF Cardinality(found) = 1
           THEN LET k == CHOOSE k \in found : TRUE
                IN  /\ itemInst' = [itemInst EXCEPT ![w] =
                            [key |-> k, quantity |-> stockItems[k].quantity,
                             reserved_quantity |-> stockItems[k].reserved_quantity]]
                    /\ pc' = [pc EXCEPT ![w] = "approve_save"]
                    /\ UNCHANGED <<stockItems, result>>
           ELSE IF found = {} /\ t # NoTenant
           THEN /\ stockItems' = [k \in DOMAIN stockItems \cup {key} |->
                        IF k = key THEN [quantity |-> 0, reserved_quantity |-> 0]
                        ELSE stockItems[k]]
                /\ itemInst' = [itemInst EXCEPT ![w] =
                        [key |-> key, quantity |-> 0, reserved_quantity |-> 0]]
                /\ pc' = [pc EXCEPT ![w] = "approve_save"]
                /\ UNCHANGED result
           ELSE /\ result' = [result EXCEPT ![w] =
                        IF found = {} THEN "IntegrityError" ELSE "MultipleObjectsReturned"]
                /\ pc' = [pc EXCEPT ![w] = "response"]
                /\ UNCHANGED <<stockItems, itemInst>>
    /\ UNCHANGED <<tenantVars, adjustments, stockTx, inst, readVars, orderVars, shopVars, demo, warehouseVars, catalogVars>>

\* a save whose UPDATE has no WHERE clause on the primary key
SaveItem_AllRows(items, key, row) == [k \in DOMAIN items |-> row]

\* StockItem.save of a loaded instance: UPDATE stock_items SET ... WHERE id = pk
SaveItem(items, key, row) == [items EXCEPT ![key] = row]

\* an approve that stores the difference instead of the counted quantity
ApprovedQuantity_Delta(row) == row.adjustment_quantity

\* the quantity approve assigns to the stock item
ApprovedQuantity(row) == row.quantity_after

\* StockAdjustment.approve, last statements: stock_item.quantity = quantity_after;
\* stock_item.save() writes every column of the instance
approve_stock_save(w) ==
    /\ pc[w] = "approve_save"
    /\ stockItems' = SaveItem(stockItems, itemInst[w].key,
            [quantity |-> ApprovedQuantity(inst[w].row),
             reserved_quantity |-> itemInst[w].reserved_quantity])
    /\ itemInst' = [itemInst EXCEPT ![w].quantity = ApprovedQuantity(inst[w].row)]
    /\ result' = [result EXCEPT ![w] = "ok"]
    /\ pc' = [pc EXCEPT ![w] = "response"]
    /\ UNCHANGED <<tenantVars, adjustments, stockTx, inst, readVars, orderVars, shopVars, demo, warehouseVars, catalogVars>>

\* StockAdjustment.reject
reject(w) ==
    /\ pc[w] = "loaded"
    /\ IF inst[w].row.status # "pending"
       THEN /\ result' = [result EXCEPT ![w] = "ValueError"]
            /\ UNCHANGED <<adjustments, inst>>
       ELSE LET row == AdjustmentSave([inst[w].row EXCEPT !.status = "rejected",
                                                          !.approved_by = user[w],
                                                          !.approved_at = TsSet])
            IN  /\ inst' = [inst EXCEPT ![w].row = row]
                /\ adjustments' = [adjustments EXCEPT ![inst[w].id] = row]
                /\ result' = [result EXCEPT ![w] = "ok"]
    /\ pc' = [pc EXCEPT ![w] = "response"]
    /\ UNCHANGED <<tenantVars, stockItems, stockTx, itemInst, readVars, orderVars, shopVars, demo, warehouseVars, catalogVars>>

\* StockItemAdmin change form, GET: a staff user opens one of the rows the
\* default manager shows
admin_change_form(w) ==
    /\ pc[w] = "view"
    /\ user[w].staff
    /\ \E k \in ItemQueryset(get_current_tenant(w)) :
        itemInst' = [itemInst EXCEPT ![w] =
            [key |-> k, quantity |-> stockItems[k].quantity,
             reserved_quantity |-> stockItems[k].reserved_quantity]]
    /\ pc' = [pc EXCEPT ![w] = "admin_form"]
    /\ UNCHANGED <<tenantVars, result, ledgerVars, inst, readVars, orderVars, shopVars, demo, warehouseVars, catalogVars>>

\* StockItemAdmin change form, POST: 'reserved_quantity' is an editable field;
\* the staff user changes it, the form posts the other fields as they were
\* loaded, and save() writes every column
admin_change_save(w) ==
    /\ pc[w] = "admin_form"
    /\ \E r \in Quantities :
        /\ stockItems' = [stockItems EXCEPT ![itemInst[w].key] =
                [quantity |-> itemInst[w].quantity, reserved_quantity |-> r]]
        /\ itemInst' = [itemInst EXCEPT ![w].reserved_quantity = r]
    /\ result' = [result EXCEPT ![w] = "ok"]
    /\ pc' = [pc EXCEPT ![w] = "response"]
    /\ UNCHANGED <<tenantVars, adjustments, stockTx, inst, readVars, orderVars, shopVars, demo, warehouseVars, catalogVars>>

\* ------------------------------------------------------------ orders
OrderTypes == {"sale", "purchase"}
\* Order.id is a random uuid4: any value no row or instance carries yet
OrderIds == 1 .. MaxOrders
UsedOrderIds == {o.id : o \in orders} \cup {orderInst[w].id : w \in Workers}

\* the prefix table of Order.generate_order_number
Prefix(ty) ==
    CASE ty = "sale" -> "SO"
      [] ty = "purchase" -> "PO"
      [] ty = "return" -> "RO"
      [] ty = "transfer" -> "TO"
      [] OTHER -> "OR"

\* f"{prefix}-{next_number:06d}" and int(order_number.split('-')[-1]): the
\* zero padded decimal of n parses back to n
FormatNumber(ty, n) == [prefix |-> Prefix(ty), n |-> n]
ParseNumber(num) == num.n

\* Order.objects.filter(tenant=self.tenant, order_type=self.order_type)
\*      .order_by('-id').first(), under the tenant filter of the default manager
LastOrders(ctx, t, ty) ==
    LET qs == {o \in orders : /\ (ctx = NoTenant \/ o.tenant = ctx)
                              /\ o.tenant = t /\ o.order_type = ty}
    IN  {o \in qs : \A o2 \in qs : o2.id <= o.id}

\* Order.generate_order_number
generate_order_number(ctx, t, ty) ==
    LET last == LastOrders(ctx, t, ty)
    IN  IF last = {} THEN FormatNumber(ty, 1)
        ELSE FormatNumber(ty, ParseNumber((CHOOSE o \in last : TRUE).order_number) + 1)

\* Order.STATUS_CHOICES
Statuses ==
    {"draft", "pending", "confirmed", "processing", "shipped", "delivered",
     "cancelled", "completed"}
\* the amounts a form carries for tax, shipping and discount
ChargeSets == {NoCharges, [tax_amount |-> 2, shipping_amount |-> 1, discount_amount |-> 1]}

LineIds == 1 .. MaxLines
LineQuantities == 1 .. MaxLineQty
FulfilledQuantities == 0 .. MaxLineQty
UnitPrices == {1, 2}

\* a DecimalField(decimal_places=2) stores n / d cents quantized to whole
\* cents: ROUND_HALF_EVEN where Django formats the number
\* (django.db.backends.utils.format_number), half up where the database
\* rounds the numeric column itself (PostgreSQL)
RoundingModes == {"ROUND_HALF_EVEN", "ROUND_HALF_UP"}
Quantize(n, d, mode) ==
    LET q == n \div d
        r == n % d
    IN  IF 2 * r < d THEN q
        ELSE IF 2 * r > d THEN q + 1
        ELSE IF mode = "ROUND_HALF_EVEN" /\ q % 2 = 0 THEN q
        ELSE q + 1

\* OrderLine.save and the row it stores (amounts in cents, percentages in
\* percent): subtotal = quantity * unit_price; discount_amount =
\* subtotal * (discount_percentage / 100) when discount_percentage > 0;
\* line_total = subtotal - discount_amount; the two Decimals are computed
\* exactly and each is quantized when it is written to its column
OrderLineSave(line, mode) ==
    LET subtotal == line.quantity * line.unit_price
        discount100 == IF line.discount_percentage > 0
                       THEN subtotal * line.discount_percentage
                       ELSE line.discount_amount * 100
    IN  [line EXCEPT !.discount_amount = Quantize(discount100, 100, mode),
                     !.line_total = Quantize(subtotal * 100 - discount100, 100, mode)]

\* self.order_lines.all(): the related manager is the tenant filtering default manager
OrderLinesOf(lines, ctx, id) ==
    {l \in DOMAIN lines : lines[l].order = id /\ (ctx = NoTenant \/ lines[l].tenant = ctx)}

\* sum(line.line_total for line in lines)
RECURSIVE SumLineTotals(_, _)
SumLineTotals(lines, S) ==
    IF S = {} THEN 0
    ELSE LET l == CHOOSE l \in S : TRUE
         IN  lines[l].line_total + SumLineTotals(lines, S \ {l})

\* Order.calculate_totals
calculate_totals(o, lines, ctx) ==
    LET sub == SumLineTotals(lines, OrderLinesOf(lines, ctx, o.id))
    IN  [o EXCEPT !.subtotal = sub,
                  !.total_amount = sub + o.tax_amount + o.shipping_amount - o.discount_amount]

\* Order.objects / OrderLine.objects under the tenant filter of the default manager
OrderQueryset(ctx) == {o \in orders : ctx = NoTenant \/ o.tenant = ctx}
LineQueryset(ctx) == {l \in DOMAIN orderLines : ctx = NoTenant \/ orderLines[l].tenant = ctx}

\* Order.save of a new order, up to super().save(): the instance gets its
\* uuid, generate_order_number reads the last order, calculate_totals reads
\* the (empty) lines.  The caller passes tenant=request.user.tenant, the tenant
\* a staff user picked in the admin form, or no tenant; S and C are the
\* statuses and charges the callers pass, max the number of uuids they draw from.
order_generate(w, S, C, max) ==
    /\ pc[w] = "view"
    /\ user[w].auth
    /\ \E given \in {NoTenant, user[w].tenant} \cup (IF user[w].staff THEN Tenants ELSE {}),
          ty \in OrderTypes, id \in (1 .. max) \ UsedOrderIds, st \in S, c \in C :
        LET t == StampTenant(get_current_tenant(w), given)
        IN  IF t = NoTenant
            THEN /\ result' = [result EXCEPT ![w] = "RelatedObjectDoesNotExist"]
                 /\ pc' = [pc EXCEPT ![w] = "response"]
                 /\ UNCHANGED orderInst
            ELSE /\ orderInst' = [orderInst EXCEPT ![w] =
                        calculate_totals(
                            [id |-> id, tenant |-> t, order_type |-> ty,
                             order_number |-> generate_order_number(get_current_tenant(w), t, ty),
                             status |-> st, subtotal |-> 0, tax_amount |-> c.tax_amount,
                             shipping_amount |-> c.shipping_amount,
                             discount_amount |-> c.discount_amount, total_amount |-> 0],
                            orderLines, get_current_tenant(w))]
                 /\ pc' = [pc EXCEPT ![w] = "order_insert"]
                 /\ UNCHANGED result
    /\ UNCHANGED <<tenantVars, ledgerVars, inst, itemInst, readVars, orders, shopVars, demo, warehouseVars, catalogVars>>

\* ------------------------------------------------------------ order lines
\* what a line form posts: quantity, unit_price and quantity_fulfilled are the
\* editable fields of OrderLineInline and OrderLineAdmin
NoLineInput == [quantity |-> 0, unit_price |-> 0, quantity_fulfilled |-> 0]
LineInputs ==
    [quantity : LineQuantities, unit_price : UnitPrices,
     quantity_fulfilled : FulfilledQuantities]

\* one submitted line form: nothing, a new line, a changed line, a deleted line
NoFormset == [op |-> "none", line |-> 0, input |-> NoLineInput]
Formsets(lines, ctx, id, LI) ==
    {NoFormset}
    \cup {[op |-> "add", line |-> 0, input |-> i] :
            i \in IF DOMAIN lines = LineIds THEN {} ELSE LI}
    \cup {[op |-> "change", line |-> l, input |-> i] :
            l \in OrderLinesOf(lines, ctx, id), i \in LI}
    \cup {[op |-> "delete", line |-> l, input |-> NoLineInput] :
            l \in OrderLinesOf(lines, ctx, id)}

\* OrderLine.id is a random uuid4 that nothing orders by: the free id taken is the least
NextLineId(lines) ==
    CHOOSE l \in LineIds \ DOMAIN lines : \A l2 \in LineIds \ DOMAIN lines : l <= l2

\* a new line has no tenant of its own: TenantAwareModel.save takes the tenant
\* of the slot, and with an empty slot the INSERT fails on the NOT NULL column
FormsetFails(ctx, f) == f.op = "add" /\ ctx = NoTenant

\* the line forms carry no discount field: their amounts are whole cents and
\* either rounding stores them as they are
FormRounding == "ROUND_HALF_EVEN"

\* the table order_lines after the form is saved: OrderLine.save for a new or
\* changed line, DELETE for a deleted one
ApplyFormset(lines, ctx, id, f) ==
    CASE f.op = "add" ->
            LET n == NextLineId(lines)
                row == OrderLineSave(
                    [tenant |-> ctx, order |-> id, quantity |-> f.input.quantity,
                     unit_price |-> f.input.unit_price, discount_percentage |-> 0,
                     discount_amount |-> 0, line_total |-> 0,
                     quantity_fulfilled |-> f.input.quantity_fulfilled], FormRounding)
            IN  [l \in DOMAIN lines \cup {n} |-> IF l = n THEN row ELSE lines[l]]
      [] f.op = "change" ->
            [lines EXCEPT ![f.line] =
                OrderLineSave([@ EXCEPT !.quantity = f.input.quantity,
                                        !.unit_price = f.input.unit_price,
                                        !.quantity_fulfilled = f.input.quantity_fulfilled],
                              FormRounding)]
      [] f.op = "delete" -> [l \in DOMAIN lines \ {f.line} |-> lines[l]]
      [] OTHER -> lines

\* Order.save, super().save(): the INSERT; order_number is unique=True.  In the
\* admin add view the inline line forms (LI: what they may post) are saved
\* after the order in the same transaction (ModelAdmin.changeform_view is atomic).
order_insert(w, LI) ==
    /\ pc[w] = "order_insert"
    /\ \E f \in {g \in Formsets(orderLines, get_current_tenant(w), orderInst[w].id, LI) :
                    g.op \in {"none", "add"}} :
        IF \/ \E o \in orders : o.order_number = orderInst[w].order_number
           \/ FormsetFails(get_current_tenant(w), f)
        THEN /\ result' = [result EXCEPT ![w] = "IntegrityError"]
             /\ UNCHANGED <<orders, orderLines>>
        ELSE /\ orders' = orders \cup {orderInst[w]}
             /\ orderLines' = ApplyFormset(orderLines, get_current_tenant(w), orderInst[w].id, f)
             /\ result' = [result EXCEPT ![w] = "ok"]
    /\ pc' = [pc EXCEPT ![w] = "response"]
    /\ UNCHANGED <<tenantVars, ledgerVars, inst, itemInst, readVars, orderInst, statusHistory, demo, warehouseVars, catalogVars>>

\* OrderAdmin change view, POST: the form posts status and the amounts (S, C:
\* the values staff enter), Order.save recomputes the totals from the lines in
\* the table and writes the row, then the inline line form (LI) is saved; one
\* transaction.  Nothing here writes order_status_history.
order_change(w, S, C, LI) ==
    /\ pc[w] = "view"
    /\ user[w].staff
    /\ \E o \in OrderQueryset(get_current_tenant(w)), st \in S, c \in C :
        \E f \in Formsets(orderLines, get_current_tenant(w), o.id, LI) :
            LET posted == [o EXCEPT !.status = st, !.tax_amount = c.tax_amount,
                                   !.shipping_amount = c.shipping_amount,
                                   !.discount_amount = c.discount_amount]
                saved == calculate_totals(posted, orderLines, get_current_tenant(w))
            IN  IF FormsetFails(get_current_tenant(w), f)
                THEN /\ result' = [result EXCEPT ![w] = "IntegrityError"]
                     /\ UNCHANGED <<orders, orderLines>>
                ELSE /\ orders' = (orders \ {o}) \cup {saved}
                     /\ orderLines' = ApplyFormset(orderLines, get_current_tenant(w), o.id, f)
                     /\ result' = [result EXCEPT ![w] = "ok"]
    /\ pc' = [pc EXCEPT ![w] = "response"]
    /\ UNCHANGED <<tenantVars, ledgerVars, inst, itemInst, readVars, orderInst, statusHistory, demo, warehouseVars, catalogVars>>

\* OrderLineAdmin add view: a line for one of the orders the form offers
line_add(w, LI) ==
    /\ pc[w] = "view"
    /\ user[w].staff
    /\ \E o \in OrderQueryset(get_current_tenant(w)) :
        \E f \in {g \in Formsets(orderLines, get_current_tenant(w), o.id, LI) : g.op = "add"} :
            IF FormsetFails(get_current_tenant(w), f)
            THEN /\ result' = [result EXCEPT ![w] = "IntegrityError"]
                 /\ UNCHANGED orderLines
            ELSE /\ orderLines' = ApplyFormset(orderLines, get_current_tenant(w), o.id, f)
                 /\ result' = [result EXCEPT ![w] = "ok"]
    /\ pc' = [pc EXCEPT ![w] = "response"]
    /\ UNCHANGED <<tenantVars, ledgerVars, inst, itemInst, readVars, orderVars, statusHistory, demo, warehouseVars, catalogVars>>

\* OrderLineAdmin change view: quantity, unit_price and the fulfillment counter
\* of one line; OrderLine.save recomputes line_total, the order is not touched
line_change(w, LI) ==
    /\ pc[w] = "view"
    /\ user[w].staff
    /\ \E l \in LineQueryset(get_current_tenant(w)), i \in LI :
        orderLines' = ApplyFormset(orderLines, get_current_tenant(w), orderLines[l].order,
                                   [op |-> "change", line |-> l, input |-> i])
    /\ result' = [result EXCEPT ![w] = "ok"]
    /\ pc' = [pc EXCEPT ![w] = "response"]
    /\ UNCHANGED <<tenantVars, ledgerVars, inst, itemInst, readVars, orderVars, statusHistory, demo, warehouseVars, catalogVars>>

\* OrderLineAdmin delete view
line_delete(w) ==
    /\ pc[w] = "view"
    /\ user[w].staff
    /\ \E l \in LineQueryset(get_current_tenant(w)) :
        orderLines' = ApplyFormset(orderLines, get_current_tenant(w), orderLines[l].order,
                                   [op |-> "delete", line |-> l, input |-> NoLineInput])
    /\ result' = [result EXCEPT ![w] = "ok"]
    /\ pc' = [pc EXCEPT ![w] = "response"]
    /\ UNCHANGED <<tenantVars, ledgerVars, inst, itemInst, readVars, orderVars, statusHistory, demo, warehouseVars, catalogVars>>

\* the fields a caller of OrderLine.save sets: percentages without, with a
\* small and with a half discount, and a discount amount entered directly
DiscountPercentages == {0, 10, 50}
DiscountAmounts == {0, 1}
LineSaveInputs ==
    [quantity : LineQuantities, unit_price : UnitPrices,
     discount_percentage : DiscountPercentages, discount_amount : DiscountAmounts]

\* OrderLine.save called on a new line of an order, or on a loaded line whose
\* fields the caller has set (LS: the values set), with the tenant of the order
line_save(w, LS) ==
    /\ pc[w] = "view"
    /\ user[w].auth
    /\ \E o \in OrderQueryset(get_current_tenant(w)), i \in LS, mode \in RoundingModes :
        \E l \in (IF DOMAIN orderLines = LineIds THEN {} ELSE {NextLineId(orderLines)})
                    \cup OrderLinesOf(orderLines, get_current_tenant(w), o.id) :
            LET row == OrderLineSave(
                        [tenant |-> o.tenant, order |-> o.id, quantity |-> i.quantity,
                         unit_price |-> i.unit_price,
                         discount_percentage |-> i.discount_percentage,
                         discount_amount |-> i.discount_amount, line_total |-> 0,
                         quantity_fulfilled |-> 0], mode)
            IN  orderLines' = [k \in DOMAIN orderLines \cup {l} |->
                                    IF k = l THEN row ELSE orderLines[k]]
    /\ result' = [result EXCEPT ![w] = "ok"]
    /\ pc' = [pc EXCEPT ![w] = "response"]
    /\ UNCHANGED <<tenantVars, ledgerVars, inst, itemInst, readVars, orderVars, statusHistory, demo, warehouseVars, catalogVars>>

\* OrderAdmin.mark_as_processing: queryset.update(status='processing') on the
\* orders selected in the change list, whatever their status
mark_as_processing(w) ==
    /\ pc[w] = "view"
    /\ user[w].staff
    /\ \E sel \in SUBSET OrderQueryset(get_current_tenant(w)) :
        /\ sel # {}
        /\ orders' = (orders \ sel) \cup {[o EXCEPT !.status = "processing"] : o \in sel}
    /\ result' = [result EXCEPT ![w] = "ok"]
    /\ pc' = [pc EXCEPT ![w] = "response"]
    /\ UNCHANGED <<tenantVars, ledgerVars, inst, itemInst, readVars, orderInst, shopVars, demo, warehouseVars, catalogVars>>

\* OrderAdmin.mark_as_shipped: queryset.update(status='shipped', shipped_at=...);
\* Order has no field shipped_at (the column is shipped_date), update raises
\* FieldDoesNotExist before any row is written
mark_as_shipped(w) ==
    /\ pc[w] = "view"
    /\ user[w].staff
    /\ OrderQueryset(get_current_tenant(w)) # {}
    /\ result' = [result EXCEPT ![w] = "FieldDoesNotExist"]
    /\ pc' = [pc EXCEPT ![w] = "response"]
    /\ UNCHANGED <<tenantVars, ledgerVars, inst, itemInst, readVars, orderVars, shopVars, demo, warehouseVars, catalogVars>>

\* OrderAdmin.mark_as_delivered: queryset.update(status='delivered', delivered_at=...);
\* no field delivered_at either
mark_as_delivered(w) ==
    /\ pc[w] = "view"
    /\ user[w].staff
    /\ OrderQueryset(get_current_tenant(w)) # {}
    /\ result' = [result EXCEPT ![w] = "FieldDoesNotExist"]
    /\ pc' = [pc EXCEPT ![w] = "response"]
    /\ UNCHANGED <<tenantVars, ledgerVars, inst, itemInst, readVars, orderVars, shopVars, demo, warehouseVars, catalogVars>>

\* OrderStatusHistoryAdmin add view: staff write a history row by hand, with
\* the order, its tenant and the from_status and to_status (H) they enter
history_add(w, H) ==
    /\ pc[w] = "view"
    /\ user[w].staff
    /\ Len(statusHistory) < MaxHistory
    /\ \E o \in OrderQueryset(get_current_tenant(w)), from \in H, to \in H :
        statusHistory' = Append(statusHistory,
            [tenant |-> o.tenant, order |-> o.id, from_status |-> from,
             to_status |-> to, changed_by |-> user[w]])
    /\ result' = [result EXCEPT ![w] = "ok"]
    /\ pc' = [pc EXCEPT ![w] = "response"]
    /\ UNCHANGED <<tenantVars, ledgerVars, inst, itemInst, readVars, orderVars, orderLines, demo, warehouseVars, catalogVars>>

\* ------------------------------------------------------------ demo data script
\* scripts/create_comprehensive_demo_data.py runs outside any request (the
\* tenant slot is empty) and passes the tenant to every create.  Each tenant
\* gets a stock item of its product and sales orders of one line each; the
\* script keeps the StockItem instance it created in memory.  Amounts in cents.
NoDemo ==
    [pc |-> "start", tenant |-> 1, quantity |-> 0, reserved_quantity |-> 0,
     order |-> NoOrderInst, line_quantity |-> 0, order_total |-> 0, made |-> 0]
DemoKey == <<demo.tenant, demo.tenant, WarehouseOf(demo.tenant)>>
\* status=random.choice(['pending', 'processing', 'shipped', 'delivered'])
DemoStatuses == {"pending", "processing", "shipped", "delivered"}
\* initial_quantity = random.randint(50, 200), every line sells random.randint(1, 10):
\* the initial stock is at least the largest quantity of a line
InitialStocks == MaxLineQty .. MaxLineQty + 1
\* order_number=f"SO-{tenant.id.hex[:8].upper()}-{i+1:04d}"
DemoPrefix(t) == IF t = 1 THEN "SO-1" ELSE "SO-2"
demoFrame == <<requestVars, adjustments>>

\* StockItem.objects.create(tenant, product, variant, warehouse, quantity, reserved_quantity)
demo_create_stock ==
    /\ demo.pc = "start"
    /\ DemoKey \notin DOMAIN stockItems
    /\ \E q \in InitialStocks, r \in Quantities :
        /\ stockItems' = [k \in DOMAIN stockItems \cup {DemoKey} |->
                IF k = DemoKey THEN [quantity |-> q, reserved_quantity |-> r]
                ELSE stockItems[k]]
        /\ demo' = [demo EXCEPT !.pc = "orders", !.quantity = q,
                                !.reserved_quantity = r, !.made = 0]
    /\ UNCHANGED <<demoFrame, stockTx, orders, shopVars, warehouseVars, catalogVars>>

\* Order.objects.create(tenant, order_number, order_type='sale', status, ...)
demo_create_order ==
    /\ demo.pc = "orders"
    /\ demo.made < MaxDemoOrders
    /\ DOMAIN orderLines # LineIds
    /\ Len(stockTx) < MaxTx
    /\ \E st \in DemoStatuses, id \in OrderIds \ UsedOrderIds :
        LET o == calculate_totals(
                    [id |-> id, tenant |-> demo.tenant, order_type |-> "sale",
                     order_number |-> [prefix |-> DemoPrefix(demo.tenant), n |-> demo.made + 1],
                     status |-> st, subtotal |-> 0, tax_amount |-> 0,
                     shipping_amount |-> 0, discount_amount |-> 0, total_amount |-> 0],
                    orderLines, NoTenant)
        IN  /\ orders' = orders \cup {o}
            /\ demo' = [demo EXCEPT !.pc = "line", !.order = o, !.made = @ + 1]
    /\ UNCHANGED <<demoFrame, stockItems, stockTx, shopVars, warehouseVars, catalogVars>>

\* OrderLine.objects.create(tenant, order, product, variant, quantity, unit_price, line_total)
demo_create_line ==
    /\ demo.pc = "line"
    /\ \E q \in LineQuantities, p \in UnitPrices :
        /\ orderLines' = ApplyFormset(orderLines, demo.tenant, demo.order.id,
                [op |-> "add", line |-> 0,
                 input |-> [quantity |-> q, unit_price |-> p, quantity_fulfilled |-> 0]])
        /\ demo' = [demo EXCEPT !.pc = "stock_save", !.line_quantity = q,
                                !.order_total = q * p]
    /\ UNCHANGED <<demoFrame, stockItems, stockTx, orders, statusHistory, warehouseVars, catalogVars>>

\* product_data['stock_item'].quantity -= quantity; product_data['stock_item'].save()
demo_stock_save ==
    /\ demo.pc = "stock_save"
    /\ stockItems' = [stockItems EXCEPT ![DemoKey] =
            [quantity |-> demo.quantity - demo.line_quantity,
             reserved_quantity |-> demo.reserved_quantity]]
    /\ demo' = [demo EXCEPT !.pc = "stock_tx", !.quantity = @ - demo.line_quantity]
    /\ UNCHANGED <<demoFrame, stockTx, orders, shopVars, warehouseVars, catalogVars>>

\* StockTransaction.objects.create(..., transaction_type='out', quantity=-quantity, reason='sale')
demo_stock_transaction ==
    /\ demo.pc = "stock_tx"
    /\ stockTx' = Append(stockTx,
            [tenant |-> demo.tenant, unit |-> DemoKey[2], warehouse |-> DemoKey[3],
             transaction_type |-> "out", quantity |-> 0 - demo.line_quantity,
             reason |-> "sale", adj |-> 0])
    /\ demo' = [demo EXCEPT !.pc = "totals"]
    /\ UNCHANGED <<demoFrame, stockItems, orders, shopVars, warehouseVars, catalogVars>>

\* order.subtotal = order_total; tax 8%; shipping 9.99 below 50; order.save()
demo_order_totals ==
    /\ demo.pc = "totals"
    /\ LET tax == (demo.order_total * 8) \div 100
           shipping == IF demo.order_total < 5000 THEN 999 ELSE 0
           o == calculate_totals(
                    [demo.order EXCEPT !.subtotal = demo.order_total, !.tax_amount = tax,
                                       !.shipping_amount = shipping,
                                       !.total_amount = demo.order_total + tax + shipping],
                    orderLines, NoTenant)
       IN  /\ orders' = (orders \ {demo.order}) \cup {o}
           /\ demo' = [demo EXCEPT !.pc = "history", !.order = o]
    /\ UNCHANGED <<demoFrame, stockItems, stockTx, shopVars, warehouseVars, catalogVars>>

\* OrderStatusHistory.objects.create(tenant, order, to_status=order.status, changed_by)
demo_order_history ==
    /\ demo.pc = "history"
    /\ statusHistory' = Append(statusHistory,
            [tenant |-> demo.tenant, order |-> demo.order.id, from_status |-> "none",
             to_status |-> demo.order.status,
             changed_by |-> [auth |-> TRUE, tenant |-> demo.tenant, staff |-> FALSE]])
    /\ demo' = [demo EXCEPT !.pc = "orders"]
    /\ UNCHANGED <<demoFrame, stockItems, stockTx, orders, orderLines, warehouseVars, catalogVars>>

\* the loop over the sales orders ends; main() goes on with the next business
demo_next_tenant ==
    /\ demo.pc = "orders"
    /\ demo.made > 0
    /\ demo' = IF demo.tenant + 1 \in Tenants
               THEN [NoDemo EXCEPT !.tenant = demo.tenant + 1]
               ELSE [demo EXCEPT !.pc = "done"]
    /\ UNCHANGED <<demoFrame, stockItems, stockTx, orders, shopVars, warehouseVars, catalogVars>>

\* ------------------------------------------------------------ low stock
\* Product.reorder_point = IntegerField(default=10)
DefaultReorderPoint == 10
\* an IntegerField(null=True): <<>> is None, <<n>> is the integer n
None == <<>>
\* the reorder points of one unit: Product.reorder_point, whether the stock
\* item has a variant, and ProductVariant.reorder_point
ReorderPoints == 0 .. MaxQty
CatalogRows ==
    [has_variant : BOOLEAN, reorder_point : ReorderPoints,
     variant_reorder_point : {None} \cup {<<n>> : n \in ReorderPoints}]
\* a product without variant and with the default reorder point
DefaultRow ==
    [has_variant |-> FALSE, reorder_point |-> DefaultReorderPoint,
     variant_reorder_point |-> None]
DefaultCatalog == [u \in Units |-> DefaultRow]
NoLowStock == [raised |-> FALSE, flags |-> <<>>]

\* StockItem.is_low_stock, first line: the reorder point it compares with
ReorderPointOf(row) ==
    IF row.has_variant THEN row.variant_reorder_point ELSE <<row.reorder_point>>
\* quantity <= None raises TypeError
is_low_stock_raises(item, row) == ReorderPointOf(row) = None
\* StockItem.is_low_stock where it returns
is_low_stock(item, row) == item.quantity <= ReorderPointOf(row)[1]

\* admin_dashboard: sum(1 for item in StockItem.objects.all() if item.is_low_stock)
admin_dashboard(w) ==
    /\ pc[w] = "view"
    /\ user[w].staff
    /\ LET items == ItemQueryset(get_current_tenant(w))
       IN  IF \E k \in items : is_low_stock_raises(stockItems[k], catalog[k[2]])
           THEN /\ lowStock' = [lowStock EXCEPT ![w] = [raised |-> TRUE, flags |-> <<>>]]
                /\ result' = [result EXCEPT ![w] = "TypeError"]
           ELSE /\ lowStock' = [lowStock EXCEPT ![w] =
                        [raised |-> FALSE,
                         flags |-> [k \in items |-> is_low_stock(stockItems[k], catalog[k[2]])]]]
                /\ result' = [result EXCEPT ![w] = "dashboard"]
    /\ pc' = [pc EXCEPT ![w] = "response"]
    /\ UNCHANGED <<tenantVars, ledgerVars, inst, itemInst, readVars, orderVars, shopVars, demo, warehouseVars, catalog>>

\* ------------------------------------------------------------ transaction admin
\* StockTransaction.objects under the tenant filter of the default manager: row numbers
TxQueryset(ctx) ==
    {n \in 1 .. Len(stockTx) : ctx = NoTenant \/ stockTx[n].tenant = ctx}
\* the quantities the form's IntegerField takes
TxQuantities == (0 - MaxQty) .. MaxQty
\* the sequence without its element n
RemoveAt(seq, n) == SubSeq(seq, 1, n - 1) \o SubSeq(seq, n + 1, Len(seq))

\* StockTransactionAdmin change view: quantity and reason are editable fields
\* of the form (only id and created_at are read-only); save() writes the row
transaction_change(w) ==
    /\ pc[w] = "view"
    /\ user[w].staff
    /\ \E n \in TxQueryset(get_current_tenant(w)), q \in TxQuantities,
          r \in {"adjustment", "audit"} :
        stockTx' = [stockTx EXCEPT ![n] = [@ EXCEPT !.quantity = q, !.reason = r]]
    /\ result' = [result EXCEPT ![w] = "ok"]
    /\ pc' = [pc EXCEPT ![w] = "response"]
    /\ UNCHANGED <<tenantVars, adjustments, stockItems, inst, itemInst, readVars, orderVars, shopVars, demo, warehouseVars, catalogVars>>

\* StockTransactionAdmin delete view and the delete_selected action
transaction_delete(w) ==
    /\ pc[w] = "view"
    /\ user[w].staff
    /\ \E n \in TxQueryset(get_current_tenant(w)) : stockTx' = RemoveAt(stockTx, n)
    /\ result' = [result EXCEPT ![w] = "ok"]
    /\ pc' = [pc EXCEPT ![w] = "response"]
    /\ UNCHANGED <<tenantVars, adjustments, stockItems, inst, itemInst, readVars, orderVars, shopVars, demo, warehouseVars, catalogVars>>

\* StockTransactionAdmin.reverse_transaction: reports reverse transactions for
\* the selected rows and writes none
reverse_transaction(w) ==
    /\ pc[w] = "view"
    /\ user[w].staff
    /\ TxQueryset(get_current_tenant(w)) # {}
    /\ result' = [result EXCEPT ![w] = "ok"]
    /\ pc' = [pc EXCEPT ![w] = "response"]
    /\ UNCHANGED <<tenantVars, ledgerVars, inst, itemInst, readVars, orderVars, shopVars, demo, warehouseVars, catalogVars>>

\* ------------------------------------------------------------ warehouses
\* Warehouse.id; the warehouses 1 .. 2 are the ones tenant_signup created, flagged default
WarehouseIds == 1 .. MaxWarehouses
NoWhInst == [id |-> 0, tenant |-> NoTenant, is_default |-> FALSE, cleared |-> {}]

\* Warehouse.objects under the tenant filter of the default manager
WarehouseQueryset(ctx) ==
    {id \in DOMAIN warehouses : ctx = NoTenant \/ warehouses[id].tenant = ctx}

\* WarehouseAdmin add view: the form has no tenant field.  Warehouse.save reads
\* self.tenant when is_default is set, which raises on an instance without
\* tenant; otherwise TenantAwareModel.save takes the tenant of the slot and
\* the INSERT fails on the NOT NULL column when the slot is empty.
warehouse_add(w) ==
    /\ pc[w] = "view"
    /\ user[w].staff
    /\ \E d \in BOOLEAN, id \in WarehouseIds \ DOMAIN warehouses :
        LET t == get_current_tenant(w)
        IN  IF d
            THEN /\ result' = [result EXCEPT ![w] = "RelatedObjectDoesNotExist"]
                 /\ UNCHANGED warehouses
            ELSE IF t = NoTenant
            THEN /\ result' = [result EXCEPT ![w] = "IntegrityError"]
                 /\ UNCHANGED warehouses
            ELSE /\ warehouses' = [i \in DOMAIN warehouses \cup {id} |->
                        IF i = id THEN [tenant |-> t, is_default |-> FALSE]
                        ELSE warehouses[i]]
                 /\ result' = [result EXCEPT ![w] = "ok"]
    /\ pc' = [pc EXCEPT ![w] = "response"]
    /\ UNCHANGED <<tenantVars, ledgerVars, inst, itemInst, readVars, orderVars, shopVars, demo, whInst, catalogVars>>

\* the rows another request's open transaction has updated and holds locked
\* (ModelAdmin.changeform_view runs in transaction.atomic)
LockedByOthers(w) ==
    UNION {whInst[w2].cleared : w2 \in {x \in Workers \ {w} : pc[x] = "warehouse_save"}}

\* WarehouseAdmin change view, POST, up to super().save(): the row is fetched,
\* the form sets is_default, and Warehouse.save of a default warehouse runs
\* Warehouse.objects.filter(tenant=self.tenant, is_default=True).update(is_default=False).
\* The UPDATE waits while a row it matches is locked by an open transaction.
warehouse_save_clear(w) ==
    /\ pc[w] = "view"
    /\ user[w].staff
    /\ \E id \in WarehouseQueryset(get_current_tenant(w)), d \in BOOLEAN :
        LET t == warehouses[id].tenant
            scope == {i \in WarehouseQueryset(get_current_tenant(w)) : warehouses[i].tenant = t}
            hit == IF d THEN {i \in scope : warehouses[i].is_default} ELSE {}
        IN  /\ d => scope \cap LockedByOthers(w) = {}
            /\ whInst' = [whInst EXCEPT ![w] =
                    [id |-> id, tenant |-> t, is_default |-> d, cleared |-> hit]]
            /\ warehouses' = [i \in DOMAIN warehouses |->
                    IF i \in hit THEN [warehouses[i] EXCEPT !.is_default = FALSE]
                    ELSE warehouses[i]]
    /\ pc' = [pc EXCEPT ![w] = "warehouse_save"]
    /\ UNCHANGED <<tenantVars, result, ledgerVars, inst, itemInst, readVars, orderVars, shopVars, demo, catalogVars>>

\* Warehouse.save, super().save(): the UPDATE of the instance's own row, and
\* the commit of the request's transaction
warehouse_save_write(w) ==
    /\ pc[w] = "warehouse_save"
    /\ whInst[w].id \notin LockedByOthers(w)
    /\ warehouses' = [warehouses EXCEPT ![whInst[w].id] =
            [tenant |-> whInst[w].tenant, is_default |-> whInst[w].is_default]]
    /\ whInst' = [whInst EXCEPT ![w] = NoWhInst]
    /\ result' = [result EXCEPT ![w] = "ok"]
    /\ pc' = [pc EXCEPT ![w] = "response"]
    /\ UNCHANGED <<tenantVars, ledgerVars, inst, itemInst, readVars, orderVars, shopVars, demo, catalogVars>>

InitDb ==
    /\ threadTenant = [w \in Workers |-> NoTenant]
    /\ pc = [w \in Workers |-> "idle"]
    /\ user = [w \in Workers |-> AnonymousUser]
    /\ result = [w \in Workers |-> "none"]
    /\ adjustments = <<>>
    /\ stockItems = <<>>
    /\ stockTx = <<>>
    /\ inst = [w \in Workers |-> NoInst]
    /\ itemInst = [w \in Workers |-> NoItemInst]
    /\ readCtx = [w \in Workers |-> NoTenant]
    /\ readRows = [w \in Workers |-> {}]
    /\ orders = {}
    /\ orderInst = [w \in Workers |-> NoOrderInst]
    /\ orderLines = <<>>
    /\ statusHistory = <<>>
    /\ demo = NoDemo
    /\ warehouses = [id \in Warehouses |->
            [tenant |-> CHOOSE t \in Tenants : WarehouseOf(t) = id, is_default |-> TRUE]]
    /\ whInst = [w \in Workers |-> NoWhInst]
    /\ lowStock = [w \in Workers |-> NoLowStock]

\* ---------------------------------------------------- tenant context and reads
InitTenant ==
    /\ InitDb
    /\ catalog = DefaultCatalog
    /\ subscription \in [Tenants -> SubStatuses]

NextTenant ==
    \E w \in Workers :
        \/ process_request(w, Users)
        \/ TrialAccessMiddleware_process_response(w)
        \/ ListAdjustments(w)
        \/ RequestAdjustment(w, {0}, MaxRows)

SpecTenant == InitTenant /\ [][NextTenant]_vars

\* ------------------------------------------------------------ ledger
\* the users that work on the ledger: the superuser and a member of tenant 1
LedgerUsers ==
    {[auth |-> TRUE, tenant |-> NoTenant, staff |-> TRUE],
     [auth |-> TRUE, tenant |-> 1, staff |-> FALSE]}

Init ==
    /\ InitDb
    /\ catalog = DefaultCatalog
    /\ subscription = [t \in Tenants |-> "trial"]

Next ==
    \E w \in Workers :
        \/ process_request(w, LedgerUsers)
        \/ TrialAccessMiddleware_process_response(w)
        \/ RequestAdjustment(w, Quantities, MaxAdj)
        \/ LoadAdjustment(w)
        \/ approve_invalid(w)
        \/ approve_status(w)
        \/ approve_transaction(w)
        \/ approve_get_or_create(w)
        \/ approve_stock_save(w)
        \/ reject(w)
        \/ admin_change_form(w)
        \/ admin_change_save(w)

Spec == Init /\ [][Next]_vars

\* ------------------------------------------------------------ ledger properties
ItemKeys == Tenants \X Units \X Warehouses
ItemQuantity(k) == IF k \in DOMAIN stockItems THEN stockItems[k].quantity ELSE 0
ApprovePcs == {"approve_tx", "approve_item", "approve_save"}
\* workers in the middle of approving adjustment i
Approving(i) == {w \in Workers : pc[w] \in ApprovePcs /\ inst[w].id = i}
\* the transactions the approvals of adjustment i wrote
TxOf(i) == {n \in 1 .. Len(stockTx) : stockTx[n].adj = i}

\* C1: whenever no approval is in flight, for every (tenant, unit, warehouse)
\* the quantities of its stock_transactions rows add up to the quantity of its
\* stock_items row.
C1_Reconciliation ==
    (\A w \in Workers : pc[w] \notin ApprovePcs \cup {"admin_form"})
        => \A k \in ItemKeys : SumTx(stockTx, k) = ItemQuantity(k)

\* C7: an approve or reject call that starts while the adjustment's row is
\* already approved or rejected fails with ValueError and writes nothing.
C7_NonPendingRejected ==
    [][\A w \in Workers :
        (/\ pc[w] = "loaded"
         /\ adjustments[inst[w].id].status # "pending"
         /\ pc'[w] # "loaded")
        => (result'[w] = "ValueError" /\ UNCHANGED ledgerVars)]_vars

C9_AllOrNothing ==
    /\ \A i \in AdjIds :
        (adjustments[i].status = "approved" /\ Approving(i) = {}) => TxOf(i) # {}
    /\ \A n \in 1 .. Len(stockTx) :
        Approving(stockTx[n].adj) = {}
            => <<stockTx[n].tenant, stockTx[n].unit, stockTx[n].warehouse>>
                    \in DOMAIN stockItems

\* C10: a reject call changes only the adjustment's row, and an adjustment
\* whose status is pending or rejected has no transaction attributable to it.
C10_RejectNoLedgerEffect ==
    /\ [][\A w \in Workers :
            (pc[w] = "loaded" /\ adjustments'[inst[w].id].status = "rejected"
                /\ adjustments[inst[w].id].status # "rejected")
            => UNCHANGED <<stockItems, stockTx>>]_vars
    /\ [](\A i \in AdjIds :
            adjustments[i].status \in {"pending", "rejected"} => TxOf(i) = {})

\* workers whose request has completed an approval / a change of reserved_quantity
ApproveDone(w) ==
    pc[w] = "response" /\ result[w] = "ok" /\ inst[w].row.status = "approved"
AdminDone(w) ==
    pc[w] = "response" /\ result[w] = "ok" /\ inst[w].id = 0
        /\ itemInst[w].key \in DOMAIN stockItems

\* C2: an approval (quantity := a) and a change of reserved_quantity (:= r) on
\* the same stock item serialize: in either serial order the row ends with
\* quantity a and reserved_quantity r, so it does whenever both have completed;
\* two approvals leave the quantity of one of them.
C2_Serializable ==
    \A w1 \in Workers : \A w2 \in Workers \ {w1} :
        /\ (ApproveDone(w1) /\ AdminDone(w2) /\ itemInst[w1].key = itemInst[w2].key)
            => stockItems[itemInst[w1].key] =
                    [quantity |-> inst[w1].row.quantity_after,
                     reserved_quantity |-> itemInst[w2].reserved_quantity]
        /\ (ApproveDone(w1) /\ ApproveDone(w2) /\ itemInst[w1].key = itemInst[w2].key)
            => stockItems[itemInst[w1].key].quantity
                    \in {inst[w1].row.quantity_after, inst[w2].row.quantity_after}

\* StockItem.available_quantity
available_quantity(item) == item.quantity - item.reserved_quantity

\* C11: every stock item has available = quantity - reserved_quantity >= 0,
\* that is reserved_quantity <= quantity.
C11_AvailableNonNegative ==
    \A k \in DOMAIN stockItems : available_quantity(stockItems[k]) >= 0

\* C18: a step that raises reserved_quantity of a stock item (a reservation)
\* raises it by no more than what was available, so it never leaves
\* reserved_quantity above quantity; a reservation beyond that fails.
C18_NoOvercommit ==
    [][\A k \in DOMAIN stockItems :
        (k \in DOMAIN stockItems'
            /\ stockItems'[k].reserved_quantity > stockItems[k].reserved_quantity)
        => /\ stockItems'[k].reserved_quantity - stockItems[k].reserved_quantity
                <= available_quantity(stockItems[k])
           /\ stockItems'[k].reserved_quantity <= stockItems'[k].quantity]_vars

\* C19: a step that reserves or releases (changes reserved_quantity of a stock
\* item) changes nothing else of the ledger: the quantity of the item, the
\* other items and the transactions stay as they are, so a release of what
\* was reserved gives back the prior state.
C19_ReserveReleaseOnlyReserved ==
    [][\A k \in DOMAIN stockItems :
        (k \in DOMAIN stockItems'
            /\ stockItems'[k].reserved_quantity # stockItems[k].reserved_quantity)
        => /\ stockItems'[k].quantity = stockItems[k].quantity
           /\ \A k2 \in DOMAIN stockItems \ {k} :
                k2 \in DOMAIN stockItems' /\ stockItems'[k2] = stockItems[k2]
           /\ stockTx' = stockTx]_vars

\* ------------------------------------------------------------ tenant properties
\* C3: a list query made while tenant T is in the slot returns only rows of T.
C3_TenantIsolation ==
    \A w \in Workers :
        readCtx[w] # NoTenant
            => \A i \in readRows[w] : adjustments[i].tenant = readCtx[w]

\* C3 witness: a query under tenant T returned a row while the table also
\* holds a row of another tenant
C3_Witness ==
    \E w \in Workers :
        /\ readCtx[w] # NoTenant
        /\ readRows[w] # {}
        /\ \E i \in AdjIds : adjustments[i].tenant # readCtx[w]

\* C4: a view that runs with an empty tenant slot fails (PermissionError, or at
\* least the database's IntegrityError) and returns no rows.
C4_FailClosed ==
    \A w \in Workers :
        (pc[w] = "response" /\ result[w] # "redirect" /\ threadTenant[w] = NoTenant)
            => (result[w] \in {"PermissionError", "IntegrityError"} /\ readRows[w] = {})

\* C5: between requests the slot of a worker is empty, and during a request it
\* holds nothing but the tenant of that request's user.
C5_SlotCleared ==
    \A w \in Workers :
        /\ pc[w] = "idle" => threadTenant[w] = NoTenant
        /\ pc[w] # "idle" => threadTenant[w] \in {NoTenant, user[w].tenant}

\* ------------------------------------------------------------ orders
\* the users that create orders: the superuser and one member of each tenant
OrderUsers == {u \in Users : u.auth /\ (u.staff <=> u.tenant = NoTenant)}

NextOrders ==
    \E w \in Workers :
        \/ process_request(w, OrderUsers)
        \/ TrialAccessMiddleware_process_response(w)
        \/ order_generate(w, {"draft"}, {NoCharges}, MaxOrders)
        \/ order_insert(w, {})

SpecOrders == Init /\ [][NextOrders]_vars

\* C6: two Order.save calls in flight for the same tenant and order type hold
\* different order numbers.
C6_DistinctNumbers ==
    \A w1 \in Workers : \A w2 \in Workers \ {w1} :
        (/\ orderInst[w1].id # 0 /\ orderInst[w2].id # 0
         /\ orderInst[w1].tenant = orderInst[w2].tenant
         /\ orderInst[w1].order_type = orderInst[w2].order_type)
        => orderInst[w1].order_number # orderInst[w2].order_number

\* ------------------------------------------------------------ order lifecycle
\* the staff that work in the admin site: the superuser and staff of tenant 1
ShopUsers ==
    {[auth |-> TRUE, tenant |-> NoTenant, staff |-> TRUE],
     [auth |-> TRUE, tenant |-> 1, staff |-> TRUE]}

\* the line forms of the status specification: one unit at price 1, any counter
CounterInputs == {i \in LineInputs : i.quantity = 1 /\ i.unit_price = 1}
\* the line forms of the line specification: nothing fulfilled
PriceInputs == {i \in LineInputs : i.quantity_fulfilled = 0}

NextStatus ==
    \E w \in Workers :
        \/ process_request(w, ShopUsers)
        \/ TrialAccessMiddleware_process_response(w)
        \/ order_generate(w, {"draft"}, {NoCharges}, MaxShopOrders)
        \/ order_insert(w, {})
        \/ order_change(w, Statuses, {NoCharges}, {})
        \/ line_add(w, CounterInputs)
        \/ mark_as_processing(w)
        \/ mark_as_shipped(w)
        \/ mark_as_delivered(w)
        \/ history_add(w, {"draft", "processing"})

SpecStatus == Init /\ [][NextStatus]_vars

NextLines ==
    \E w \in Workers :
        \/ process_request(w, ShopUsers)
        \/ TrialAccessMiddleware_process_response(w)
        \/ order_generate(w, {"draft"}, ChargeSets, MaxShopOrders)
        \/ order_insert(w, PriceInputs)
        \/ order_change(w, {"pending", "confirmed"}, ChargeSets, PriceInputs)
        \/ line_add(w, PriceInputs)
        \/ line_change(w, PriceInputs)
        \/ line_delete(w)

SpecLines == Init /\ [][NextLines]_vars


\* ------------------------------------------------------------ order properties
\* the declared status graph: the chain draft .. delivered, completed after
\* delivered (for an order that is not shipped, a purchase, also from
\* confirmed or processing), cancelled from the states before shipped
StatusGraph(ty) ==
    {<<"draft", "pending">>, <<"pending", "confirmed">>, <<"confirmed", "processing">>,
     <<"processing", "shipped">>, <<"shipped", "delivered">>, <<"delivered", "completed">>}
    \cup {<<s, "cancelled">> : s \in {"draft", "pending", "confirmed", "processing"}}
    \cup (IF ty = "sale" THEN {}
          ELSE {<<"confirmed", "completed">>, <<"processing", "completed">>})

\* the lines of order id, whatever their tenant
AllLinesOf(id) == {l \in DOMAIN orderLines : orderLines[l].order = id}
\* the history rows of order id
HistoryOf(id) == {n \in 1 .. Len(statusHistory) : statusHistory[n].order = id}

\* C12: every change of an order's status follows an edge of the declared graph.
C12_StatusGraph ==
    [][\A o \in orders : \A o2 \in orders' :
        (o2.id = o.id /\ o2.status # o.status)
            => <<o.status, o2.status>> \in StatusGraph(o.order_type)]_vars

\* C13: a step that changes an order's status from s to t appends exactly one
\* history row (order, from s, to t, actor), and the status of an order that
\* has history equals the to_status of its latest history row.
C13_StatusHistory ==
    /\ [][\A o \in orders : \A o2 \in orders' :
            (o2.id = o.id /\ o2.status # o.status)
                => /\ Len(statusHistory') = Len(statusHistory) + 1
                   /\ SubSeq(statusHistory', 1, Len(statusHistory)) = statusHistory
                   /\ LET h == statusHistory'[Len(statusHistory')]
                      IN  /\ h.order = o.id
                          /\ h.from_status = o.status
                          /\ h.to_status = o2.status]_vars
    /\ [](\A o \in orders :
            HistoryOf(o.id) # {}
                => statusHistory[CHOOSE n \in HistoryOf(o.id) :
                        \A m \in HistoryOf(o.id) : m <= n].to_status = o.status)

\* C14: a step that makes an order cancelled happens only while none of its
\* lines has quantity_fulfilled > 0.
C14_NoCancelAfterFulfillment ==
    [][\A o \in orders : \A o2 \in orders' :
        (o2.id = o.id /\ o.status # "cancelled" /\ o2.status = "cancelled")
            => \A l \in AllLinesOf(o.id) : orderLines[l].quantity_fulfilled = 0]_vars

\* C15: a draft or pending order stores subtotal = sum of the line_total of
\* its lines and total_amount = subtotal + tax + shipping - discount.
C15_TotalsFollowLines ==
    \A o \in orders :
        o.status \in {"draft", "pending"}
            => /\ o.subtotal = SumLineTotals(orderLines, AllLinesOf(o.id))
               /\ o.total_amount =
                    o.subtotal + o.tax_amount + o.shipping_amount - o.discount_amount

\* C16: while an order is confirmed or later no step adds or removes a line of
\* it, changes quantity, unit_price or line_total of one of its lines, or
\* changes the subtotal it stores for them.
C16_LinesFrozenAfterConfirm ==
    [][\A o \in orders :
        o.status \notin {"draft", "pending"}
            => /\ {l \in DOMAIN orderLines' : orderLines'[l].order = o.id} = AllLinesOf(o.id)
               /\ \A l \in AllLinesOf(o.id) :
                    /\ orderLines'[l].quantity = orderLines[l].quantity
                    /\ orderLines'[l].unit_price = orderLines[l].unit_price
                    /\ orderLines'[l].line_total = orderLines[l].line_total
               /\ \A o2 \in orders' : o2.id = o.id => o2.subtotal = o.subtotal]_vars

\* C17: every order line has 0 <= quantity_fulfilled <= quantity.
C17_FulfilledWithinQuantity ==
    \A l \in DOMAIN orderLines :
        /\ 0 <= orderLines[l].quantity_fulfilled
        /\ orderLines[l].quantity_fulfilled <= orderLines[l].quantity

\* ------------------------------------------------------------ demo data
NextDemo ==
    \/ demo_create_stock
    \/ demo_create_order
    \/ demo_create_line
    \/ demo_stock_save
    \/ demo_stock_transaction
    \/ demo_order_totals
    \/ demo_order_history
    \/ demo_next_tenant

SpecDemo == Init /\ [][NextDemo]_vars

\* C20: a step that lowers the quantity of a stock item by a sale (an outbound
\* movement) never leaves the quantity negative: a movement that would is
\* rejected and changes neither the item nor the transactions.
C20_OutboundNeverNegative ==
    [][\A k \in DOMAIN stockItems :
        (k \in DOMAIN stockItems' /\ stockItems'[k].quantity < stockItems[k].quantity)
            => stockItems'[k].quantity >= 0]_vars

\* ------------------------------------------------------------ order numbers
\* the stored orders of one tenant and order type
OrdersOf(t, ty) == {o \in orders : o.tenant = t /\ o.order_type = ty}

\* C21: an Order.save that starts while no other save is in flight, for a
\* tenant and type whose k stored orders carry the numbers 1 .. k, receives
\* the number k + 1 with the prefix of the type, whatever the ids of the orders.
C21_SequentialNumbers ==
    [][\A w \in Workers :
        (/\ pc[w] = "view" /\ pc'[w] = "order_insert"
         /\ \A w2 \in Workers \ {w} : orderInst[w2].id = 0)
        => LET o == orderInst'[w]
               before == OrdersOf(o.tenant, o.order_type)
           IN  {ParseNumber(x.order_number) : x \in before} = 1 .. Cardinality(before)
                => o.order_number = FormatNumber(o.order_type, Cardinality(before) + 1)]_vars

\* ------------------------------------------------------------ warehouses
NextWarehouses ==
    \E w \in Workers :
        \/ process_request(w, ShopUsers)
        \/ TrialAccessMiddleware_process_response(w)
        \/ warehouse_add(w)
        \/ warehouse_save_clear(w)
        \/ warehouse_save_write(w)

SpecWarehouses == Init /\ [][NextWarehouses]_vars

\* the warehouses of tenant t that are flagged default
DefaultsOf(t) == {id \in DOMAIN warehouses : warehouses[id].tenant = t /\ warehouses[id].is_default}

\* C22: every tenant has at most one warehouse with is_default = TRUE.
C22_OneDefaultWarehouse ==
    \A t \in Tenants : Cardinality(DefaultsOf(t)) <= 1

\* ------------------------------------------------------------ ownership of writes
\* the tenants of the rows a step inserts or changes, table by table
WrittenSeq(old, new) ==
    {new[i].tenant : i \in {j \in 1 .. Len(new) : j > Len(old) \/ new[j] # old[j]}}
WrittenFcn(old, new) ==
    {new[k].tenant : k \in {j \in DOMAIN new : j \notin DOMAIN old \/ new[j] # old[j]}}
WrittenTenants ==
    {o.tenant : o \in orders' \ orders}
    \cup WrittenSeq(adjustments, adjustments')
    \cup WrittenSeq(stockTx, stockTx')
    \cup WrittenSeq(statusHistory, statusHistory')
    \cup WrittenFcn(orderLines, orderLines')
    \cup WrittenFcn(warehouses, warehouses')
    \cup {k[1] : k \in {j \in DOMAIN stockItems' :
                            j \notin DOMAIN stockItems \/ stockItems'[j] # stockItems[j]}}

\* C23: every row a request inserts or changes while tenant T is in its slot
\* is owned by T.
C23_WritesOwnedByActiveTenant ==
    [][\A w \in Workers :
        (pc'[w] # pc[w] /\ threadTenant[w] # NoTenant)
            => WrittenTenants \subseteq {threadTenant[w]}]_vars

\* ------------------------------------------------------------ transaction log
NextLog ==
    \E w \in Workers :
        \/ process_request(w, LedgerUsers)
        \/ TrialAccessMiddleware_process_response(w)
        \/ RequestAdjustment(w, Quantities, MaxAdj)
        \/ LoadAdjustment(w)
        \/ approve_status(w)
        \/ approve_transaction(w)
        \/ approve_get_or_create(w)
        \/ approve_stock_save(w)
        \/ transaction_change(w)
        \/ transaction_delete(w)
        \/ reverse_transaction(w)

SpecLog == Init /\ [][NextLog]_vars

\* C24: stock_transactions is append-only: every step leaves the rows already
\* in the table as they are (unit, warehouse, quantity, reason) and removes
\* none; it can only add rows at the end.
C24_TransactionsWriteOnce ==
    [][/\ Len(stockTx') >= Len(stockTx)
       /\ SubSeq(stockTx', 1, Len(stockTx)) = stockTx]_vars

\* ------------------------------------------------------------ low stock
\* the catalogs of the low stock specification: any reorder points for the
\* unit of tenant 1, whose stock the ledger users move
Catalogs == {c \in [Units -> CatalogRows \cup {DefaultRow}] : \A u \in Units \ {1} : c[u] = DefaultRow}

InitLowStock ==
    /\ InitDb
    /\ subscription = [t \in Tenants |-> "trial"]
    /\ catalog \in Catalogs

NextLowStock ==
    \E w \in Workers :
        \/ process_request(w, LedgerUsers)
        \/ TrialAccessMiddleware_process_response(w)
        \/ RequestAdjustment(w, Quantities, MaxAdj)
        \/ LoadAdjustment(w)
        \/ approve_status(w)
        \/ approve_transaction(w)
        \/ approve_get_or_create(w)
        \/ approve_stock_save(w)
        \/ admin_dashboard(w)

SpecLowStock == InitLowStock /\ [][NextLowStock]_vars

\* the effective reorder point: the variant's when the item has a variant
\* with one set, the product's otherwise
EffectiveReorderPoint(row) ==
    IF row.has_variant /\ row.variant_reorder_point # None
    THEN row.variant_reorder_point[1]
    ELSE row.reorder_point

\* C25: the dashboard's evaluation of is_low_stock returns, for every stock
\* item it sees, the boolean quantity <= effective reorder point, and never raises.
C25_LowStock ==
    [][\A w \in Workers :
        (pc[w] = "view" /\ result'[w] \in {"dashboard", "TypeError"})
        => /\ ~lowStock'[w].raised
           /\ \A k \in ItemQueryset(get_current_tenant(w)) :
                lowStock'[w].flags[k]
                    = (stockItems[k].quantity <= EffectiveReorderPoint(catalog[k[2]]))]_vars

\* ------------------------------------------------------------ row independence
\* members of both tenants, who request adjustments that count MaxQty pieces
\* and approve them
RowUsers == {u \in Users : u.auth /\ ~u.staff /\ u.tenant # NoTenant}

NextRows ==
    \E w \in Workers :
        \/ process_request(w, RowUsers)
        \/ TrialAccessMiddleware_process_response(w)
        \/ RequestAdjustment(w, {MaxQty}, MaxRows)
        \/ LoadAdjustment(w)
        \/ approve_status(w)
        \/ approve_transaction(w)
        \/ approve_get_or_create(w)
        \/ approve_stock_save(w)

SpecRows == Init /\ [][NextRows]_vars

\* the transactions of the other (unit, warehouse) pairs, in order
OtherTx(log, u, wh) == SelectSeq(log, LAMBDA t : t.unit # u \/ t.warehouse # wh)
\* the stock item rows a step inserts or changes
ChangedItems ==
    {k \in DOMAIN stockItems' : k \notin DOMAIN stockItems \/ stockItems'[k] # stockItems[k]}

NextLineSave ==
    \E w \in Workers :
        \/ process_request(w, ShopUsers)
        \/ TrialAccessMiddleware_process_response(w)
        \/ order_generate(w, {"draft"}, {NoCharges}, MaxShopOrders)
        \/ order_insert(w, {})
        \/ line_save(w, LineSaveInputs)

SpecLineSave == Init /\ [][NextLineSave]_vars

\* C27: every stored order line has
\* line_total = quantity * unit_price - discount_amount.
C27_LineTotal ==
    \A l \in DOMAIN orderLines :
        orderLines[l].line_total
            = orderLines[l].quantity * orderLines[l].unit_price - orderLines[l].discount_amount

\* ------------------------------------------------------------ one ledger effect
\* C28: an adjustment has at most one transaction, at most one approve call
\* gets past the status check for it, and a rejected adjustment has neither
\* a transaction nor an approval in progress.
C28_OneLedgerEffect ==
    \A i \in AdjIds :
        /\ Cardinality(TxOf(i)) <= 1
        /\ Cardinality(Approving(i)) <= 1
        /\ adjustments[i].status = "rejected" => (TxOf(i) = {} /\ Approving(i) = {})

\* ------------------------------------------------------------ tenant of the ledger rows
\* C29: the transaction a step of approve appends and the stock item it
\* inserts or changes carry the tenant of the adjustment, whatever tenant is
\* in the slot; no row is written without a tenant.
C29_ApproveTenant ==
    [][\A w \in Workers :
        (pc[w] \in ApprovePcs /\ pc'[w] # pc[w])
        => /\ \A n \in (Len(stockTx) + 1) .. Len(stockTx') :
                stockTx'[n].tenant = inst[w].row.tenant
           /\ \A k \in ChangedItems : k[1] = inst[w].row.tenant]_vars

\* ------------------------------------------------------------ order numbers across tenants
\* C30: the INSERT of an order whose number no order of its own tenant holds
\* succeeds, whatever orders the other tenants have created.
C30_NoCrossTenantInterference ==
    [][\A w \in Workers :
        (/\ pc[w] = "order_insert" /\ pc'[w] # pc[w]
         /\ \A x \in orders :
                x.tenant = orderInst[w].tenant => x.order_number # orderInst[w].order_number)
        => (result'[w] = "ok" /\ orderInst[w] \in orders')]_vars
====
